---------------------------- MODULE Spec2Model ----------------------------
(***************************************************************************)
(* Connection race resolution of crust: the ConnectionCandidate state      *)
(* machine (src/src/main/connection_candidate.rs), the ConnectionMap it    *)
(* shares with the other candidates of a node, and the contact-info        *)
(* projection (src/src/event.rs).                                          *)
(*                                                                         *)
(* A node is named by its identity (our_id).  Every candidate runs on a    *)
(* reactor of its own, so handlers of different candidates interleave at   *)
(* the points where they take the ConnectionMap mutex; one candidate's     *)
(* handler runs to completion before its next event is dispatched.         *)
(***************************************************************************)
EXTENDS Integers, Sequences, FiniteSets, TLC

MaxCand == 2
MaxId == 2
MaxAddrs == 2
MaxFrame == 3
MaxHs == 3

Tokens == 1..MaxCand
PeerIds == 1..MaxId

EventBits == {"readable", "writable", "error", "hup"}
EventSets == SUBSET EventBits \ {{}}
ReadResults == {"ChooseConnection", "Other", "Err", "None"}
WriteResults == {"true", "false", "Err"}

VARIABLES cand, cm, lock, wire, ourInfo, theirInfo

vars == <<cand, cm, lock, wire, ourInfo, theirInfo>>

-----------------------------------------------------------------------------
(* ConnectionMap: HashMap<PeerId, ConnectionId> behind a mutex.            *)

ConnectionId(hs, active) ==
    [currently_handshaking |-> hs, active_connection |-> active]

NoConnection == 0

EmptyMap == [p \in {} |-> ConnectionId(0, NoConnection)]

insert(m, p, v) == [q \in DOMAIN m \cup {p} |-> IF q = p THEN v ELSE m[q]]

remove(m, p) == [q \in DOMAIN m \ {p} |-> m[q]]

begin_handshake(m, p) ==
    IF p \in DOMAIN m
    THEN insert(m, p, [m[p] EXCEPT !.currently_handshaking = @ + 1])
    ELSE insert(m, p, ConnectionId(1, NoConnection))

set_active(m, p, conn) ==
    IF p \in DOMAIN m
    THEN insert(m, p, [m[p] EXCEPT !.active_connection = conn])
    ELSE insert(m, p, ConnectionId(0, conn))

has_active_never(m, p) == FALSE

has_active(m, p) ==
    IF p \in DOMAIN m THEN m[p].active_connection # NoConnection ELSE FALSE

end_handshake_keep(m, p) ==
    IF p \in DOMAIN m
    THEN insert(m, p, [m[p] EXCEPT !.currently_handshaking = @ - 1])
    ELSE m

end_handshake_at_zero(m, p) ==
    IF p \in DOMAIN m
    THEN LET oe == [m[p] EXCEPT !.currently_handshaking = @ - 1] IN
         IF oe.currently_handshaking = 0 THEN remove(m, p) ELSE insert(m, p, oe)
    ELSE m

end_handshake(m, p) ==
    IF p \in DOMAIN m
    THEN LET oe == [m[p] EXCEPT !.currently_handshaking = @ - 1] IN
         IF oe.currently_handshaking = 0 /\ oe.active_connection = NoConnection
         THEN remove(m, p)
         ELSE insert(m, p, oe)
    ELSE m

-----------------------------------------------------------------------------
(* ConnectionCandidate                                                     *)

NoCandidate ==
    [started |-> "no", our_id |-> 0, their_id |-> 0,
     socket |-> "None", msg |-> "None",
     in_contexts |-> FALSE, in_states |-> FALSE,
     interest |-> "none", reregisters |-> 0, deregisters |-> 0,
     pc |-> "idle", todo_writable |-> FALSE, via |-> "none",
     arg |-> "None", superseded |-> FALSE, rd |-> "none",
     written_msgs |-> 0, written_none |-> FALSE,
     finished |-> <<>>, terminates |-> 0,
     panic |-> "none"]

write_first_swapped(our, their) == our < their

write_first_never(our, their) == FALSE

write_first(our, their) == our > their

(* start: Err when the reregister fails, else the new candidate.           *)
start(our, their, ok) ==
    IF write_first(our, their) /\ ~ok
    THEN [NoCandidate EXCEPT !.started = "err", !.our_id = our,
                             !.their_id = their, !.reregisters = 1]
    ELSE [NoCandidate EXCEPT
            !.started = "ok", !.our_id = our, !.their_id = their,
            !.socket = "Some", !.msg = "Some",
            !.in_contexts = TRUE, !.in_states = TRUE,
            !.interest = IF write_first(our, their) THEN "write" ELSE "inherited",
            !.reregisters = IF write_first(our, their) THEN 1 ELSE 0]

panicked(r, where) == [r EXCEPT !.pc = "panicked", !.panic = where]

terminate_unguarded(r, via) ==
    [r EXCEPT !.in_contexts = FALSE, !.in_states = FALSE,
              !.terminates = @ + 1,
              !.socket = "None", !.interest = "deregistered",
              !.deregisters = @ + 1, !.via = via, !.pc = "t_lock"]

(* terminate up to the mutex: `via` is the caller to return to.            *)
terminate(r, via) ==
    LET r1 == [r EXCEPT !.in_contexts = FALSE, !.in_states = FALSE,
                        !.terminates = @ + 1] IN
    IF r1.socket = "None"
    THEN panicked(r1, "terminate")
    ELSE [r1 EXCEPT !.socket = "None", !.interest = "deregistered",
                    !.deregisters = @ + 1, !.via = via, !.pc = "t_lock"]

handle_error(r, site) == terminate(r, site)

(* done handing out a copy of the socket instead of taking it.             *)
done_keeps_socket(r) ==
    [r EXCEPT !.in_contexts = FALSE, !.in_states = FALSE,
              !.finished = Append(@, "Some"), !.pc = "f_lock"]

(* done up to the call of finish, whose body runs from pc "f_lock".        *)
done(r) ==
    LET r1 == [r EXCEPT !.in_contexts = FALSE, !.in_states = FALSE] IN
    IF r1.socket = "None"
    THEN panicked(r1, "done")
    ELSE [r1 EXCEPT !.socket = "None",
                    !.finished = Append(@, "Some"), !.pc = "f_lock"]

take_msg_keep(r) == [r EXCEPT !.arg = r.msg, !.pc = "w_lock"]

take_msg(r) == [r EXCEPT !.arg = r.msg, !.msg = "None", !.pc = "w_lock"]

(* ready returns; a candidate no longer in core's state table is dropped.  *)
returned(r) ==
    IF r.in_states
    THEN [r EXCEPT !.pc = "idle", !.via = "none", !.rd = "none"]
    ELSE [r EXCEPT !.pc = "idle", !.via = "none", !.rd = "none",
                   !.msg = "None",
                   !.written_msgs = 0, !.written_none = FALSE]

(* the rest of ready after its read step.                                  *)
after_step(r) ==
    IF r.todo_writable
    THEN take_msg([r EXCEPT !.todo_writable = FALSE])
    ELSE returned(r)

Decoded(res) ==
    CASE res = "ChooseConnection" -> "ChooseConnection"
      [] res \in {"Other", "Err"} -> "rejected"
      [] OTHER -> "none"

read_rejects_marker(r, res) ==
    IF r.socket = "None" THEN panicked(r, "read")
    ELSE IF res = "None"
         THEN after_step(r)
         ELSE handle_error([r EXCEPT !.rd = "rejected"], "read")

read_lenient(r, res) ==
    IF r.socket = "None" THEN panicked(r, "read")
    ELSE IF res = "ChooseConnection"
         THEN done([r EXCEPT !.rd = Decoded(res)])
         ELSE after_step([r EXCEPT !.rd = Decoded(res)])

read(r, res) ==
    IF r.socket = "None" THEN panicked(r, "read")
    ELSE CASE res = "ChooseConnection" -> done([r EXCEPT !.rd = Decoded(res)])
           [] res \in {"Other", "Err"} ->
                 handle_error([r EXCEPT !.rd = Decoded(res)], "read")
           [] OTHER -> after_step(r)

(* write after the registry lookup, whose answer is `superseded`.          *)
write(r, superseded, res) ==
    LET r0 == [r EXCEPT !.arg = "None"] IN
    IF superseded THEN handle_error(r0, "superseded")
    ELSE IF r.socket = "None" THEN panicked(r0, "write")
    ELSE LET r1 == IF r.arg = "Some"
                   THEN [r0 EXCEPT !.written_msgs = @ + 1]
                   ELSE [r0 EXCEPT !.written_none = TRUE] IN
         CASE res = "true" -> done(r1)
           [] res = "false" -> returned(r1)
           [] OTHER -> handle_error(r1, "write")

ready_ignores_hup(r, event_set, res) ==
    IF "error" \in event_set
    THEN handle_error(r, "event")
    ELSE LET r1 == [r EXCEPT !.todo_writable = "writable" \in event_set] IN
         IF "readable" \in event_set THEN read(r1, res) ELSE after_step(r1)

ready(r, event_set, res) ==
    IF "error" \in event_set \/ "hup" \in event_set
    THEN handle_error(r, "event")
    ELSE LET r1 == [r EXCEPT !.todo_writable = "writable" \in event_set] IN
         IF "readable" \in event_set THEN read(r1, res) ELSE after_step(r1)

-----------------------------------------------------------------------------
(* Contact info                                                            *)

UdpSockets == {"udp1", "udp2"}
(* Option<[u8; 4]>: <<>> is None, <<b>> is Some(b).                        *)
Secrets == {<<>>, <<<<1, 2, 3, 4>>>>, <<<<0, 0, 0, 0>>>>}
Endpoints == {"ep1", "ep2"}
SocketAddrs == {"sa1", "sa2"}

SeqsUpTo(S, n) == UNION {[1..k -> S] : k \in 0..n}

OurContactInfos ==
    [socket : UdpSockets, secret : Secrets,
     static_addrs : SeqsUpTo(Endpoints, MaxAddrs),
     rendezvous_addrs : SeqsUpTo(SocketAddrs, MaxAddrs),
     pub_key : PeerIds]

NoInfo == [none |-> TRUE]

make_their_info_truncating(self) ==
    [secret |-> self.secret,
     static_addrs |-> IF Len(self.static_addrs) > 1
                         THEN <<self.static_addrs[1]>>
                         ELSE self.static_addrs,
     rendezvous_addrs |-> self.rendezvous_addrs,
     pub_key |-> self.pub_key]

make_their_info(self) ==
    [secret |-> self.secret,
     static_addrs |-> self.static_addrs,
     rendezvous_addrs |-> self.rendezvous_addrs,
     pub_key |-> self.pub_key]

-----------------------------------------------------------------------------
(* State machine                                                           *)

(* A socket's transport state: chunks of its outgoing frame not yet        *)
(* accepted, chunks that arrived and are unread, chunks in its read buffer.*)
NoWire == [out |-> 0, inb |-> 0, got |-> 0]

InitCandidates ==
    /\ cand = [c \in Tokens |-> NoCandidate]
    /\ cm = [n \in PeerIds |-> EmptyMap]
    /\ lock = [n \in PeerIds |-> 0]
    /\ wire = [c \in Tokens |-> NoWire]

Init ==
    /\ InitCandidates
    /\ ourInfo = NoInfo
    /\ theirInfo = NoInfo

Node(c) == cand[c].our_id

Peer(c) == cand[c].their_id

Start(c, our, their, ok) ==
    /\ cand[c].started = "no"
    /\ \A d \in Tokens : d < c => cand[d].started # "no" /\ cand[d].our_id = our
    /\ lock[our] = 0
    /\ cand' = [cand EXCEPT ![c] = start(our, their, ok)]
    /\ cm' = IF cand'[c].started = "ok"
             THEN [cm EXCEPT ![our] = begin_handshake(@, their)]
             ELSE cm
    /\ UNCHANGED <<lock, wire, ourInfo, theirInfo>>

Dispatchable(c) ==
    /\ cand[c].in_contexts
    /\ cand[c].in_states
    /\ cand[c].pc = "idle"

Dispatch(c, event_set, res) ==
    /\ Dispatchable(c)
    /\ cand' = [cand EXCEPT ![c] = ready(@, event_set, res)]
    /\ UNCHANGED <<cm, lock, ourInfo, theirInfo>>

Ready(c, event_set, res) == Dispatch(c, event_set, res) /\ UNCHANGED wire

Terminate(c) ==
    /\ Dispatchable(c)
    /\ cand' = [cand EXCEPT ![c] = terminate(@, "owner")]
    /\ UNCHANGED <<cm, lock, wire, ourInfo, theirInfo>>

(* the MutexGuard is dropped.                                              *)
unlock_leaked(l, n) == l

unlock(l, n) == [l EXCEPT ![n] = 0]

Acquire(c, from, to) ==
    /\ cand[c].pc = from
    /\ lock[Node(c)] = 0
    /\ lock' = [lock EXCEPT ![Node(c)] = c]
    /\ cand' = [cand EXCEPT ![c].pc = to]
    /\ UNCHANGED <<cm, wire, ourInfo, theirInfo>>

WriteLock(c) == Acquire(c, "w_lock", "w_locked")

(* write, lines 88-91: the lookup; the guard is a temporary of the let.    *)
WriteCheck(c) ==
    /\ cand[c].pc = "w_locked"
    /\ lock' = unlock(lock, Node(c))
    /\ cand' = [cand EXCEPT ![c].pc = "w_checked",
                            ![c].superseded = has_active(cm[Node(c)], Peer(c))]
    /\ UNCHANGED <<cm, wire, ourInfo, theirInfo>>

(* write, lines 92-100: the rest of write, with the lookup's answer.       *)
WriteSocket(c, res) ==
    /\ cand[c].pc = "w_checked"
    /\ cand' = [cand EXCEPT ![c] =
                  write([@ EXCEPT !.superseded = FALSE], @.superseded, res)]
    /\ UNCHANGED <<cm, lock, ourInfo, theirInfo>>

Write(c, res) == WriteSocket(c, res) /\ UNCHANGED wire

TerminateLock(c) == Acquire(c, "t_lock", "t_locked")

TerminateEnd(c) ==
    /\ cand[c].pc = "t_locked"
    /\ cm' = [cm EXCEPT ![Node(c)] = end_handshake(@, Peer(c))]
    /\ lock' = unlock(lock, Node(c))
    /\ cand' = [cand EXCEPT ![c].pc = "t_done"]
    /\ UNCHANGED <<wire, ourInfo, theirInfo>>

(* terminate returns: to its owner, or to handle_error, which calls        *)
(* finish(None) and returns into ready.                                    *)
TerminateReturn(c) ==
    /\ cand[c].pc = "t_done"
    /\ cand' = [cand EXCEPT ![c] =
                  IF @.via = "owner"
                  THEN returned(@)
                  ELSE after_step([@ EXCEPT !.finished = Append(@, "None")])]
    /\ UNCHANGED <<cm, lock, wire, ourInfo, theirInfo>>

FinishLock(c) == Acquire(c, "f_lock", "f_locked")

FinishSetActive(c) ==
    /\ cand[c].pc = "f_locked"
    /\ cm' = [cm EXCEPT ![Node(c)] = set_active(@, Peer(c), c)]
    /\ lock' = unlock(lock, Node(c))
    /\ cand' = [cand EXCEPT ![c] = after_step(@)]
    /\ UNCHANGED <<wire, ourInfo, theirInfo>>

Next ==
    \/ \E c \in Tokens, our \in PeerIds, their \in PeerIds, ok \in BOOLEAN :
          Start(c, our, their, ok)
    \/ \E c \in Tokens, es \in EventSets :
          \E res \in (IF es \cap {"error", "hup"} = {} /\ "readable" \in es
                       THEN ReadResults ELSE {"None"}) : Ready(c, es, res)
    \/ \E c \in Tokens : Terminate(c)
    \/ \E c \in Tokens : WriteLock(c)
    \/ \E c \in Tokens : WriteCheck(c)
    \/ \E c \in Tokens, res \in WriteResults : Write(c, res)
    \/ \E c \in Tokens : TerminateLock(c)
    \/ \E c \in Tokens : TerminateEnd(c)
    \/ \E c \in Tokens : TerminateReturn(c)
    \/ \E c \in Tokens : FinishLock(c)
    \/ \E c \in Tokens : FinishSetActive(c)

Spec == Init /\ [][Next]_vars

-----------------------------------------------------------------------------
(* Contact-info projection, applied to every OurContactInfo in the bounds. *)

InitInfo ==
    /\ InitCandidates
    /\ ourInfo \in OurContactInfos
    /\ theirInfo = NoInfo

MakeTheirInfo ==
    /\ ourInfo # NoInfo
    /\ theirInfo' = make_their_info(ourInfo)
    /\ UNCHANGED <<ourInfo, cand, cm, lock, wire>>

NextInfo == MakeTheirInfo

SpecInfo == InitInfo /\ [][NextInfo]_vars

-----------------------------------------------------------------------------
(* The registry block of terminate, applied to every ConnectionMap of one  *)
(* node in the bounds.  An entry that a terminating candidate finds has    *)
(* counted that candidate, so its currently_handshaking is at least 1.     *)

ConnectionIds ==
    [currently_handshaking : 1..MaxHs,
     active_connection : {NoConnection} \cup Tokens]

ConnectionMaps == UNION {[D -> ConnectionIds] : D \in SUBSET PeerIds}

InitRegistry ==
    /\ cand = [c \in Tokens |-> NoCandidate]
    /\ cm \in {[n \in PeerIds |-> IF n = 1 THEN m ELSE EmptyMap] :
                  m \in ConnectionMaps}
    /\ lock = [n \in PeerIds |-> 0]
    /\ wire = [c \in Tokens |-> NoWire]
    /\ ourInfo = NoInfo
    /\ theirInfo = NoInfo

EndHandshake(p) ==
    /\ p \in DOMAIN cm[1] => cm[1][p].currently_handshaking >= 1
    /\ cm' = [cm EXCEPT ![1] = end_handshake(@, p)]
    /\ UNCHANGED <<cand, lock, wire, ourInfo, theirInfo>>

NextRegistry == \E p \in PeerIds : EndHandshake(p)

SpecRegistry == InitRegistry /\ [][NextRegistry]_vars

-----------------------------------------------------------------------------
(* Two nodes, one candidate each, on the two ends of one socket pair, over *)
(* a reliable transport: no error or hang-up events, no failed reads or    *)
(* writes, every chunk written arrives.  The reactor reports writable to a *)
(* socket registered for it that has something to send, and readable to a  *)
(* socket with unread chunks.                                              *)

PairTokens == {1, 2}

Other(c) == 3 - c

PairStart(c, our, their, ok) ==
    /\ cand[c].started = "no"
    /\ our # their
    /\ cand[Other(c)].started # "no"
          => our = cand[Other(c)].their_id /\ their = cand[Other(c)].our_id
    /\ lock[our] = 0
    /\ cand' = [cand EXCEPT ![c] = start(our, their, ok)]
    /\ cm' = IF cand'[c].started = "ok"
             THEN [cm EXCEPT ![our] = begin_handshake(@, their)]
             ELSE cm
    /\ UNCHANGED <<lock, wire, ourInfo, theirInfo>>

PairWritable(c) ==
    /\ cand[c].interest = "write"
    /\ cand[c].msg = "Some" \/ wire[c].out > 0
    /\ Ready(c, {"writable"}, "None")

Pending(c) == IF cand[c].arg = "Some" THEN MaxFrame ELSE wire[c].out

PairWrite(c, k) ==
    /\ cand[c].pc = "w_checked"
    /\ k \in 1..Pending(c)
    /\ WriteSocket(c, IF k = Pending(c) THEN "true" ELSE "false")
    /\ wire' = IF cand[c].socket = "Some" /\ ~cand[c].superseded
               THEN [wire EXCEPT ![c].out = Pending(c) - k,
                                 ![Other(c)].inb = @ + k]
               ELSE wire

Buffered(c) == wire[c].got + wire[c].inb

PairReadable(c) ==
    /\ cand[c].interest = "inherited"
    /\ wire[c].inb > 0
    /\ Dispatch(c, {"readable"},
                IF Buffered(c) = MaxFrame THEN "ChooseConnection" ELSE "None")
    /\ wire' = [wire EXCEPT ![c].inb = 0,
                            ![c].got = IF Buffered(c) = MaxFrame
                                       THEN 0 ELSE Buffered(c)]

NextPair ==
    \/ \E c \in PairTokens, our \in PeerIds, their \in PeerIds, ok \in BOOLEAN :
          PairStart(c, our, their, ok)
    \/ \E c \in PairTokens : PairWritable(c)
    \/ \E c \in PairTokens : WriteLock(c)
    \/ \E c \in PairTokens : WriteCheck(c)
    \/ \E c \in PairTokens, k \in 1..MaxFrame : PairWrite(c, k)
    \/ \E c \in PairTokens : PairReadable(c)
    \/ \E c \in PairTokens : FinishLock(c)
    \/ \E c \in PairTokens : FinishSetActive(c)

SpecPair == Init /\ [][NextPair]_vars /\ WF_vars(NextPair)

-----------------------------------------------------------------------------
(* Vocabulary of the properties                                            *)

Started(c) == cand[c].started = "ok"

Negotiating(c) == Started(c) /\ cand[c].socket = "Some"

ReachedDone(c) == \E i \in DOMAIN cand[c].finished : cand[c].finished[i] = "Some"

Terminal(c) ==
    Started(c) /\ cand[c].socket = "None" /\ cand[c].pc \in {"idle", "panicked"}

Racing(n, p) == {c \in Tokens : Started(c) /\ Node(c) = n /\ Peer(c) = p}

Winners(n, p) == {c \in Racing(n, p) : ReachedDone(c)}

ActiveRecorded(n, p) ==
    p \in DOMAIN cm[n] /\ cm[n][p].active_connection # NoConnection

-----------------------------------------------------------------------------
(* C1. Single winner: once all candidates racing for a peer are terminal,  *)
(* at most one of them reached Done, and the peer's active_connection is   *)
(* set iff exactly one did.                                                *)
SingleWinner ==
    \A n \in PeerIds, p \in PeerIds :
        (Racing(n, p) # {} /\ \A c \in Racing(n, p) : Terminal(c))
        => /\ Cardinality(Winners(n, p)) <= 1
           /\ ActiveRecorded(n, p) <=> Cardinality(Winners(n, p)) = 1

(* C2. Registry invariant: an entry exists only while its peer has a       *)
(* handshake in flight or an active connection; no entry with              *)
(* currently_handshaking = 0 and no active connection is left behind.      *)
RegistryInvariant ==
    \A n \in PeerIds : \A p \in DOMAIN cm[n] :
        /\ cm[n][p].currently_handshaking >= 0
        /\ \/ cm[n][p].currently_handshaking > 0
           \/ cm[n][p].active_connection # NoConnection

RegistryEntryRemoved ==
    \E c \in Tokens :
        /\ cand[c].terminates = 1 /\ cand[c].pc = "idle"
        /\ cand[c].finished = <<"None">>
        /\ Peer(c) \notin DOMAIN cm[Node(c)]

(* C3. The completion continuation is invoked at most once per candidate,  *)
(* whatever event masks ready receives.                                    *)
FinishAtMostOnce == \A c \in Tokens : Len(cand[c].finished) <= 1

FinishThenWritableBit ==
    \E c \in Tokens :
        /\ cand[c].finished = <<"Some">>
        /\ cand[c].rd = "ChooseConnection"
        /\ cand[c].panic = "terminate"

(* C4. Idempotent termination: a second terminate on a candidate is a      *)
(* no-op: no crash, no second deregistration, no second decrement.         *)
IdempotentTermination ==
    \A c \in Tokens :
        cand[c].terminates >= 2
        => cand[c].panic = "none" /\ cand[c].deregisters = 1

(* C5. Clean win: after a Negotiating candidate, alone for its peer with   *)
(* no active connection, completes its write and reaches Done, the         *)
(* continuation has received Some((socket, token)), the peer's             *)
(* currently_handshaking is 0 and no Registry entry remains.               *)
CleanWin ==
    \A c \in Tokens :
        (/\ cand[c].pc \in {"f_lock", "f_locked"}
         /\ cand[c].rd = "none" /\ cand[c].written_msgs = 1
         /\ Racing(Node(c), Peer(c)) = {c})
        => /\ cand[c].finished = <<"Some">>
           /\ cand[c].socket = "None"
           /\ Peer(c) \notin DOMAIN cm[Node(c)]

MalformedRead ==
    \A c \in Tokens :
        cand[c].rd = "rejected"
        => /\ cand[c].socket = "None"
           /\ cand[c].deregisters = 1
           /\ cand[c].finished =
                 IF cand[c].pc \in {"t_lock", "t_locked", "t_done"}
                    /\ cand[c].via = "read"
                 THEN <<>> ELSE <<"None">>

MalformedReadWithWritableBit ==
    \E c \in Tokens :
        /\ cand[c].rd = "rejected" /\ cand[c].pc = "panicked"
        /\ cand[c].finished = <<"None">>

(* C10. Projection fidelity: make_their_info copies secret, both address   *)
(* lists in order and the identity, carries no socket, and leaves its      *)
(* source unchanged.                                                       *)
ProjectionFidelity ==
    /\ [](theirInfo # NoInfo =>
            /\ DOMAIN theirInfo =
                  {"secret", "static_addrs", "rendezvous_addrs", "pub_key"}
            /\ theirInfo.secret = ourInfo.secret
            /\ theirInfo.static_addrs = ourInfo.static_addrs
            /\ theirInfo.rendezvous_addrs = ourInfo.rendezvous_addrs
            /\ theirInfo.pub_key = ourInfo.pub_key)
    /\ [][ourInfo' = ourInfo]_vars

ProjectedTwoAddresses ==
    /\ theirInfo # NoInfo
    /\ ourInfo.secret # <<>>
    /\ Len(ourInfo.static_addrs) = 2
    /\ ourInfo.static_addrs[1] # ourInfo.static_addrs[2]
    /\ Len(ourInfo.rendezvous_addrs) = 2

(* C8. Symmetry break: of the two sides of a socket pair, the side with    *)
(* the greater identity calls reregister for write-readiness in start and  *)
(* the other side never does, whichever side starts first.                 *)
SymmetryBreak ==
    \A c \in PairTokens :
        cand[c].started # "no"
        => /\ cand[c].reregisters = IF Node(c) > Peer(c) THEN 1 ELSE 0
           /\ Negotiating(c)
                 => cand[c].interest =
                       IF Node(c) > Peer(c) THEN "write" ELSE "inherited"

BothSidesStarted ==
    /\ \A c \in PairTokens : Negotiating(c) /\ cand[c].pc = "idle"
    /\ Node(1) < Peer(1)
    /\ cand[2].interest = "write" /\ cand[1].interest = "inherited"

(* C9. No symmetric deadlock: on a socket pair only the side with the      *)
(* greater identity writes the acceptance marker and only the other side   *)
(* reads it, and once both sides have started both candidates reach a      *)
(* terminal state.                                                         *)
NoSymmetricDeadlock ==
    /\ [](\A c \in PairTokens :
            /\ (cand[c].pc \in {"w_lock", "w_locked", "w_checked"}
                   \/ cand[c].written_msgs > 0)
                  => Node(c) > Peer(c)
            /\ cand[c].rd = "ChooseConnection" => Node(c) < Peer(c))
    /\ <>(\/ \E c \in PairTokens : cand[c].started = "err"
          \/ \A c \in PairTokens : Terminal(c))

BothSidesDone ==
    /\ \A c \in PairTokens : Terminal(c) /\ cand[c].finished = <<"Some">>
    /\ wire[1].inb = 0 /\ wire[2].inb = 0

Handshaking(n, p) ==
    IF p \in DOMAIN cm[n] THEN cm[n][p].currently_handshaking ELSE 0

Quiet(c) == cand[c].pc \in {"idle", "panicked"}

(* C11. Handshake count: whenever no handler of a peer's candidates is in  *)
(* progress, the peer's currently_handshaking equals the number of its     *)
(* candidates in Negotiating (0 when the peer has no entry): one increment *)
(* per start, one decrement per done or terminate, never below zero.       *)
HandshakeCount ==
    \A n \in PeerIds, p \in PeerIds :
        (\A c \in Racing(n, p) : Quiet(c))
        => /\ Handshaking(n, p) >= 0
           /\ Handshaking(n, p) =
                 Cardinality({c \in Racing(n, p) : Negotiating(c)})

(* C12. Failure path registry effect: terminate decrements the peer's      *)
(* currently_handshaking by one and removes the entry iff the counter      *)
(* reached zero and no active connection is recorded; otherwise the entry  *)
(* is kept with its active_connection unchanged; entries of other peers    *)
(* are never touched.                                                      *)
TerminateRegistryEffect ==
    [][\E p \in DOMAIN cm[1] :
          LET e == cm[1][p]
              h == e.currently_handshaking - 1
          IN /\ (p \notin DOMAIN cm'[1])
                   <=> (h = 0 /\ e.active_connection = NoConnection)
             /\ p \in DOMAIN cm'[1]
                   => /\ cm'[1][p].currently_handshaking = h
                      /\ cm'[1][p].active_connection = e.active_connection
             /\ \A q \in PeerIds \ {p} :
                   /\ q \in DOMAIN cm'[1] <=> q \in DOMAIN cm[1]
                   /\ q \in DOMAIN cm[1] => cm'[1][q] = cm[1][q]
             /\ \A n \in PeerIds \ {1} : cm'[n] = cm[n]]_vars

LastHandshakeEndedUnderActive ==
    \E p \in DOMAIN cm[1], q \in DOMAIN cm[1] :
        /\ p # q
        /\ cm[1][p].currently_handshaking = 0
        /\ cm[1][p].active_connection # NoConnection
        /\ cm[1][q].currently_handshaking = 1

(* C13. Success path: the step in which a candidate reaches Done removes   *)
(* it from the reactor and the context registry, decrements its peer's     *)
(* currently_handshaking (end_handshake), and leaves active_connection as  *)
(* it was.                                                                 *)
DoneBookkeeping ==
    [][\A c \in Tokens :
          (~ReachedDone(c) /\ ReachedDone(c)')
          => /\ ~cand'[c].in_contexts /\ ~cand'[c].in_states
             /\ cand'[c].socket = "None"
             /\ ActiveRecorded(Node(c), Peer(c))'
                   <=> ActiveRecorded(Node(c), Peer(c))
             /\ Handshaking(Node(c), Peer(c))'
                   = Handshaking(Node(c), Peer(c)) - 1]_vars

(* C14. Error or hang-up in the event mask: ready goes directly to the     *)
(* failure path whatever other bits the mask has: nothing is read or       *)
(* written, the pending message is not taken, the socket is deregistered,  *)
(* and the continuation is then invoked with None.                         *)
ErrorMaskDirect ==
    /\ [](\A c \in Tokens : Dispatchable(c) =>
            \A es \in EventSets, res \in ReadResults :
               es \cap {"error", "hup"} # {}
               => LET r == ready(cand[c], es, res) IN
                  /\ r.pc = "t_lock" /\ r.via = "event"
                  /\ r.socket = "None"
                  /\ r.deregisters = cand[c].deregisters + 1
                  /\ r.terminates = cand[c].terminates + 1
                  /\ r.msg = cand[c].msg /\ r.arg = "None"
                  /\ r.rd = "none" /\ ~r.todo_writable
                  /\ r.written_msgs = cand[c].written_msgs
                  /\ r.written_none = cand[c].written_none
                  /\ r.finished = cand[c].finished)
    /\ [][\A c \in Tokens :
            (cand[c].via = "event" /\ cand[c].pc # cand'[c].pc)
            => /\ cand[c].pc = "t_lock" => cand'[c].pc = "t_locked"
               /\ cand[c].pc = "t_locked" => cand'[c].pc = "t_done"
               /\ cand[c].pc = "t_done"
                     => /\ cand'[c].pc = "idle"
                        /\ cand[c].finished = <<>>
                        /\ cand'[c].finished = <<"None">>
               /\ cand'[c].written_msgs <= cand[c].written_msgs
               /\ cand'[c].rd = "none"]_vars

ErrorWithPendingMessage ==
    \E c \in Tokens :
        /\ cand[c].pc = "t_done" /\ cand[c].via = "event"
        /\ cand[c].msg = "Some" /\ cand[c].interest = "deregistered"
        /\ cand[c].finished = <<>>

(* C15. The pending acceptance marker is handed to the socket write at     *)
(* most once per candidate: the first writable event takes it and later    *)
(* ones carry no message; a write that would block leaves the candidate in *)
(* Negotiating with the Registry unchanged and the marker not re-queued;   *)
(* a later write that completes leads to Done.                             *)
MarkerWrittenOnce ==
    /\ [](\A c \in Tokens :
            /\ cand[c].written_msgs <= 1
            /\ (cand[c].written_msgs = 1 \/ cand[c].written_none)
                  => cand[c].msg = "None" /\ cand[c].arg = "None"
            /\ cand[c].written_none => cand[c].written_msgs = 1)
    /\ [][\A c \in Tokens :
            (cand[c].pc = "w_checked" /\ cand'[c].pc = "idle"
             /\ ~cand[c].superseded /\ cand[c].socket = "Some")
            => /\ Negotiating(c)' /\ Dispatchable(c)'
               /\ cand'[c].msg = "None"
               /\ cand'[c].finished = <<>>
               /\ cm' = cm]_vars
    /\ [][\A c \in Tokens :
            (cand[c].pc = "w_checked" /\ cand'[c].pc = "f_lock")
            => /\ cand'[c].finished = <<"Some">>
               /\ cand'[c].written_msgs = 1]_vars

ResumedWriteCompleted ==
    \E c \in Tokens :
        /\ cand[c].pc = "f_lock" /\ cand[c].finished = <<"Some">>
        /\ cand[c].written_msgs = 1 /\ cand[c].written_none
        /\ cand[c].rd = "none"

Notified(c) == Len(cand[c].finished) >= 1

(* C16. Terminal states are absorbing: a candidate reaches exactly one of  *)
(* Done or Terminated, and once its continuation has been notified no      *)
(* later step, the remaining bits of the event mask included, invokes      *)
(* done or terminate on it again, touches its socket slot or crashes.      *)
TerminalAbsorbing ==
    /\ [](\A c \in Tokens : ~(ReachedDone(c) /\ cand[c].deregisters >= 1))
    /\ [][\A c \in Tokens :
            Notified(c)
            => /\ cand'[c].finished = cand[c].finished
               /\ cand'[c].terminates = cand[c].terminates
               /\ cand'[c].deregisters = cand[c].deregisters
               /\ cand'[c].panic = "none"]_vars

(* C17. Exclusive socket ownership: the candidate's socket slot is         *)
(* non-empty iff the candidate is in Negotiating (started, neither done    *)
(* nor terminate has run on it); the socket leaves the slot only in a step *)
(* of done (handed to the continuation) or of terminate (deregistered),    *)
(* and is never both handed to the continuation and deregistered.          *)
ExclusiveSocketOwnership ==
    /\ [](\A c \in Tokens :
            /\ cand[c].socket = "Some"
                  <=> (Started(c) /\ ~ReachedDone(c) /\ cand[c].deregisters = 0)
            /\ ~(ReachedDone(c) /\ cand[c].deregisters >= 1)
            /\ cand[c].deregisters <= 1
            /\ Cardinality({i \in DOMAIN cand[c].finished :
                               cand[c].finished[i] = "Some"}) <= 1)
    /\ [][\A c \in Tokens :
            (cand[c].socket = "Some" /\ cand'[c].socket = "None")
            => \/ /\ cand'[c].finished = Append(cand[c].finished, "Some")
                  /\ cand'[c].deregisters = cand[c].deregisters
               \/ /\ cand'[c].deregisters = cand[c].deregisters + 1
                  /\ cand'[c].terminates = cand[c].terminates + 1
                  /\ cand'[c].finished = cand[c].finished]_vars

HandedThenTerminateAgain ==
    \E c \in Tokens, d \in Tokens :
        /\ c # d
        /\ ReachedDone(c) /\ cand[c].panic = "terminate"
        /\ cand[d].deregisters = 1 /\ cand[d].finished = <<"None">>

LockHeld == {"w_locked", "t_locked", "f_locked"}

(* C18. Lock scope: the ConnectionMap lock is held only between its        *)
(* acquisition and the single lookup or mutation that follows; the step a  *)
(* holder takes releases it and performs no socket operation, no reactor   *)
(* call and no call of the continuation.                                   *)
LockScope ==
    /\ [](\A n \in PeerIds :
            lock[n] # 0
            => /\ lock[n] \in Tokens /\ Node(lock[n]) = n
               /\ cand[lock[n]].pc \in LockHeld)
    /\ [](\A c \in Tokens : cand[c].pc \in LockHeld => lock[Node(c)] = c)
    /\ [][\A n \in PeerIds :
            lock[n] # 0
            => LET c == lock[n] IN
               cand'[c] # cand[c]
               => /\ lock'[n] = 0
                  /\ cand'[c].socket = cand[c].socket
                  /\ cand'[c].interest = cand[c].interest
                  /\ cand'[c].reregisters = cand[c].reregisters
                  /\ cand'[c].deregisters = cand[c].deregisters
                  /\ cand'[c].in_contexts = cand[c].in_contexts
                  /\ cand'[c].in_states = cand[c].in_states
                  /\ cand'[c].finished = cand[c].finished
                  /\ cand'[c].terminates = cand[c].terminates
                  /\ cand'[c].written_msgs <= cand[c].written_msgs
                  /\ cand'[c].written_none => cand[c].written_none]_vars

LockContended ==
    \E c \in Tokens, d \in Tokens :
        /\ c # d /\ Node(c) = Node(d)
        /\ cand[c].pc = "t_locked" /\ lock[Node(c)] = c
        /\ cand[d].pc = "w_lock"

(* C19. ready never accesses the socket slot after the socket was taken   *)
(* out of it: no handler of a candidate panics, whatever the event masks.  *)
NoLogicError == \A c \in Tokens : cand[c].panic = "none"

(* C20. The supersession check guards only the write path: a Negotiating   *)
(* candidate that reads a complete acceptance marker reaches Done and      *)
(* hands its socket to the continuation with the Registry untouched,       *)
(* whether or not an active connection is recorded for its peer; a read    *)
(* that finds no complete message leaves the candidate as it was.          *)
ReadPathUnguarded ==
    /\ [](\A c \in Tokens : Dispatchable(c) =>
            /\ LET r == ready(cand[c], {"readable"}, "ChooseConnection") IN
                  /\ r.pc = "f_lock" /\ r.finished = <<"Some">>
                  /\ r.socket = "None"
                  /\ r.terminates = 0 /\ r.deregisters = 0
                  /\ r.msg = cand[c].msg
            /\ ready(cand[c], {"readable"}, "None") = cand[c])
    /\ [][\A c \in Tokens :
            (cand[c].pc = "idle" /\ cand'[c].rd = "ChooseConnection")
            => /\ cm' = cm
               /\ cand'[c].pc = "f_lock"
               /\ cand'[c].finished = <<"Some">>]_vars

DoneByReadUnderActive ==
    \E c \in Tokens, d \in Tokens :
        /\ c # d /\ Started(c) /\ Started(d)
        /\ Node(c) = Node(d) /\ Peer(c) = Peer(d)
        /\ ActiveRecorded(Node(c), Peer(c))
        /\ cm[Node(c)][Peer(c)].active_connection = d
        /\ cand[c].pc = "f_lock" /\ cand[c].rd = "ChooseConnection"
        /\ cand[c].finished = <<"Some">>

=============================================================================
